---- MODULE Spec2Model ----
(***************************************************************************)
(* swap-manager: the chained-command interpreter (main) and the swap       *)
(* lifecycle steps (show_swaps, empty_swap, set_swap) with the size parser *)
(* (parse_human_size), modelled from src/src/main.rs.                      *)
(*                                                                         *)
(* A run starts after Cli::parse() has produced cli.actions (line 67).     *)
(* Tokens are sequences of one-character strings.  External utilities and  *)
(* file operations are steps whose outcome the environment chooses.        *)
(* An unsigned 64-bit value is a little-endian tuple of NLimbs limbs in    *)
(* base LimbBase (7 x 10 bits = 70 bits >= 64 bits).                       *)
(***************************************************************************)
EXTENDS Integers, Sequences, FiniteSets, TLC

VARIABLES
    args,           \* cli.actions, as parsed by the front end
    q,              \* VecDeque q: tokens not yet popped
    pc,             \* position of the run
    cur,            \* the action being executed: [act, size_tok, replace, persist]
    size_bytes,     \* set_swap: the parsed byte count (limbs)
    exit,           \* "running", "zero" (main returned Ok), "nonzero" (Err or panic)
    err,            \* label of the error that ended the run, "" if none
    hist,           \* what ended so far, in order: [act, ok], act "main" for an
                    \* error raised by main itself
    calls,          \* external steps of the current action, in order: [u, r]
    out,            \* what wrote to stdout, in order: the usage hint, or an action
    pre,            \* swap areas and files when the current action was dispatched
    isRoot,         \* geteuid() = 0
    fileExists,     \* /swap-manager.swap exists
    swapfileActive, \* a swap area at /swap-manager.swap is active
    othersActive,   \* some other swap area is active
    fstab,          \* content of /etc/fstab, a sequence of chunks
    fstabReadable   \* fs::read_to_string("/etc/fstab") succeeds (valid UTF-8, readable)

prog == <<args, q, pc, cur, size_bytes, exit, err, hist, calls, out, pre>>
env  == <<isRoot, fileExists, swapfileActive, othersActive, fstab, fstabReadable>>
vars == <<args, q, pc, cur, size_bytes, exit, err, hist, calls, out, pre,
          isRoot, fileExists, swapfileActive, othersActive, fstab, fstabReadable>>

(***************************************************************************)
(* Bounds                                                                  *)
(***************************************************************************)
\* number of phrases (an action with its arguments, or a stray token) in a chain
MaxPhrases == 2
\* length of the generated size tokens of the parser specification
MaxTokLen == 2

(***************************************************************************)
(* Tokens                                                                  *)
(***************************************************************************)
T_show    == <<"s", "h", "o", "w">>
T_empty   == <<"e", "m", "p", "t", "y">>
T_set     == <<"s", "e", "t">>
T_replace == <<"-", "-", "r", "e", "p", "l", "a", "c", "e">>
T_persist == <<"-", "-", "p", "e", "r", "s", "i", "s", "t">>
T_bogus   == <<"-", "-", "b", "o", "g", "u", "s">>
T_dashx   == <<"-", "x">>
T_bad     == <<"b", "a", "d">>
T_5G      == <<"5", "G">>

Phrases ==
    { <<T_show>>, <<T_empty>>, <<T_set>>,
      <<T_set, T_5G>>, <<T_set, T_bad>>,
      <<T_set, T_5G, T_replace>>,
      <<T_set, T_5G, T_replace, T_persist>>,
      <<T_set, T_bad, T_replace>>,
      <<T_bogus>>, <<T_dashx>>, <<T_bad>> }

RECURSIVE ChainsOf(_)
ChainsOf(n) ==
    IF n = 0 THEN { <<>> }
    ELSE LET shorter == ChainsOf(n - 1)
         IN  shorter \cup { c \o p : c \in shorter, p \in Phrases }

Chains == ChainsOf(MaxPhrases)

StartsWith(s, p) == Len(s) >= Len(p) /\ SubSeq(s, 1, Len(p)) = p

(***************************************************************************)
(* Characters                                                              *)
(***************************************************************************)
LowerAlpha == <<"a", "b", "c", "d", "e", "f", "g", "h", "i", "j", "k", "l", "m",
                "n", "o", "p", "q", "r", "s", "t", "u", "v", "w", "x", "y", "z">>
UpperAlpha == <<"A", "B", "C", "D", "E", "F", "G", "H", "I", "J", "K", "L", "M",
                "N", "O", "P", "Q", "R", "S", "T", "U", "V", "W", "X", "Y", "Z">>
DigitChars == <<"0", "1", "2", "3", "4", "5", "6", "7", "8", "9">>

IsAsciiDigit(c) == \E i \in 1..10 : DigitChars[i] = c
DigitVal(c) == (CHOOSE i \in 1..10 : DigitChars[i] = c) - 1

\* char::to_uppercase on the characters of the model's alphabet
UpperChar(c) ==
    IF \E i \in 1..26 : LowerAlpha[i] = c
    THEN UpperAlpha[CHOOSE i \in 1..26 : LowerAlpha[i] = c]
    ELSE c

to_uppercase(s) == [i \in 1..Len(s) |-> UpperChar(s[i])]

(***************************************************************************)
(* Unsigned 64-bit arithmetic on limbs                                     *)
(***************************************************************************)
LimbBase == 1024
NLimbs == 7
\* a value fits in 64 bits iff its top limb (weight 2^60) is below 2^4
U64TopLimit == 16

Zero == [i \in 1..NLimbs |-> 0]
Limbs(x) == [i \in 1..NLimbs |-> IF i <= Len(x) THEN x[i] ELSE 0]
FitsU64(x) == x[NLimbs] < U64TopLimit

\* a * m + c for small m, c: limbs i..NLimbs of the result, then the carry out
RECURSIVE MulSmallAdd(_, _, _, _)
MulSmallAdd(a, m, c, i) ==
    IF i > NLimbs THEN <<c>>
    ELSE LET t == a[i] * m + c
         IN  <<t % LimbBase>> \o MulSmallAdd(a, m, t \div LimbBase, i + 1)

\* u64::checked_mul(10) then u64::checked_add(d), on a value that fits
checked_mul10_add(a, d) ==
    LET r == MulSmallAdd(a, 10, d, 1)
    IN  [ok  |-> r[NLimbs] < U64TopLimit /\ r[NLimbs + 1] = 0,
         val |-> SubSeq(r, 1, NLimbs)]

\* schoolbook product of two limb tuples: the sum of column i, then the limbs
\* i..2*NLimbs of the product
RECURSIVE MulCol(_, _, _, _)
MulCol(a, b, i, j) ==
    IF j > NLimbs THEN 0
    ELSE (IF i - j + 1 \in 1..NLimbs THEN a[j] * b[i - j + 1] ELSE 0)
         + MulCol(a, b, i, j + 1)

RECURSIVE MulSeq(_, _, _, _)
MulSeq(a, b, c, i) ==
    IF i > 2 * NLimbs THEN <<>>
    ELSE LET t == MulCol(a, b, i, 1) + c
         IN  <<t % LimbBase>> \o MulSeq(a, b, t \div LimbBase, i + 1)

\* fault: the product is taken modulo 2^64 and never reported as overflowing
checked_mul_wrapping(a, b) ==
    LET p == MulSeq(a, b, 0, 1)
    IN  [ok  |-> TRUE,
         val |-> [i \in 1..NLimbs |->
                    IF i = NLimbs THEN p[i] % U64TopLimit ELSE p[i]]]

\* u64::checked_mul: None on overflow
checked_mul(a, b) ==
    LET p == MulSeq(a, b, 0, 1)
    IN  [ok  |-> /\ \A i \in (NLimbs + 1)..(2 * NLimbs) : p[i] = 0
                 /\ p[NLimbs] < U64TopLimit,
         val |-> SubSeq(p, 1, NLimbs)]

\* 1024u64.pow(k)
Pow1024(k) == [i \in 1..NLimbs |-> IF i = k + 1 THEN 1 ELSE 0]

\* u64 addition: limbs i..NLimbs of the sum, then the carry out
RECURSIVE AddSeq(_, _, _, _)
AddSeq(a, b, c, i) ==
    IF i > NLimbs THEN <<c>>
    ELSE LET t == a[i] + b[i] + c
         IN  <<t % LimbBase>> \o AddSeq(a, b, t \div LimbBase, i + 1)

\* u64::overflowing_add: the sum modulo 2^64 and whether it overflowed
overflowing_add(a, b) ==
    LET r == AddSeq(a, b, 0, 1)
    IN  [over |-> r[NLimbs] >= U64TopLimit \/ r[NLimbs + 1] > 0,
         val  |-> [i \in 1..NLimbs |->
                     IF i = NLimbs THEN r[i] % U64TopLimit ELSE r[i]]]

\* x / (1024 * 1024): drop the two low limbs
DivMiB(x) == [i \in 1..NLimbs |-> IF i + 2 <= NLimbs THEN x[i + 2] ELSE 0]

\* 1024 * 1024 - 1
MiBMinusOne == Limbs(<<LimbBase - 1, LimbBase - 1>>)

(***************************************************************************)
(* parse_human_size                                                        *)
(***************************************************************************)
PErr(e) == [ok |-> FALSE, val |-> Zero, e |-> e]
POk(v)  == [ok |-> TRUE, val |-> v, e |-> ""]

\* the digit loop of <u64 as FromStr>::from_str
RECURSIVE ParseDigits(_, _)
ParseDigits(ds, acc) ==
    IF ds = <<>> THEN POk(acc)
    ELSE IF ~IsAsciiDigit(Head(ds)) THEN PErr("parse: invalid digit")
    ELSE LET r == checked_mul10_add(acc, DigitVal(Head(ds)))
         IN  IF r.ok THEN ParseDigits(Tail(ds), r.val)
             ELSE PErr("parse: number too large")

\* str::parse::<u64>: empty and a lone sign are errors, one leading "+" is accepted
parse_u64(ns) ==
    IF ns = <<>> THEN PErr("parse: empty")
    ELSE IF ns = <<"+">> \/ ns = <<"-">> THEN PErr("parse: invalid digit")
    ELSE IF Head(ns) = "+" THEN ParseDigits(Tail(ns), Zero)
    ELSE ParseDigits(ns, Zero)

\* fault: T selects 1024^3
SuffixPowWrong(c) ==
    CASE c = "K" -> 1
      [] c = "M" -> 2
      [] c = "G" -> 3
      [] c = "T" -> 3

\* lines 133-136: the exponent of 1024 a suffix letter selects
SuffixPow(c) ==
    CASE c = "K" -> 1
      [] c = "M" -> 2
      [] c = "G" -> 3
      [] c = "T" -> 4

parse_human_size(s) ==
    IF s = <<>> THEN PErr("empty size")
    ELSE
      LET ls   == to_uppercase(s)
          last == ls[Len(ls)]
      IN  IF last \notin {"K", "M", "G", "T"} /\ ~IsAsciiDigit(last)
          THEN PErr("unknown suffix")
          ELSE
            LET suffixed   == last \in {"K", "M", "G", "T"}
                num_str    == IF suffixed THEN SubSeq(ls, 1, Len(ls) - 1) ELSE ls
                multiplier == IF suffixed THEN Pow1024(SuffixPow(last)) ELSE Pow1024(0)
            IN  IF num_str = <<>> THEN PErr("malformed size")
                ELSE LET n == parse_u64(num_str)
                     IN  IF ~n.ok THEN n
                         ELSE LET p == checked_mul(n.val, multiplier)
                              IN  IF p.ok THEN POk(p.val) ELSE PErr("size overflow")

(***************************************************************************)
(* /etc/fstab                                                              *)
(***************************************************************************)
\* format!("{} none swap sw 0 0\n", path.display()), in three chunks
fstab_line == <<"/swap-manager.swap", " none swap sw 0 0", "\n">>

\* str::contains: the needle occurs as a contiguous subsequence
Contains(hay, needle) ==
    \E i \in 0..(Len(hay) - Len(needle)) : SubSeq(hay, i + 1, i + Len(needle)) = needle

Occurrences(hay, needle) ==
    Cardinality({ i \in 0..(Len(hay) - Len(needle)) :
                    SubSeq(hay, i + 1, i + Len(needle)) = needle })

\* /etc/fstab as a run can find it, <<content, readable>>: without the entry
\* (another entry, and the swap entry with white space before its newline), with
\* the entry, and with the entry but not readable as text (a byte that is not
\* UTF-8)
FstabStates ==
    { << <<"/swap-manager.swap", " none swap sw 0 0", " ", "\n">>, TRUE >>,
      << <<"UUID=1 / ext4 defaults 0 1", "\n">> \o fstab_line, TRUE >>,
      << <<"# caf<E9>", "\n">> \o fstab_line, FALSE >> }

(***************************************************************************)
(* Initial states                                                          *)
(***************************************************************************)
\* the swap areas and the two files as they are now
Snapshot == [others |-> othersActive, swapfile |-> swapfileActive,
             file |-> fileExists, fstab |-> fstab]

NoAction == [act |-> "none", size_tok |-> <<>>, replace |-> FALSE, persist |-> FALSE]

Init ==
    /\ args \in Chains
    /\ q = <<>>
    /\ pc = "start"
    /\ cur = NoAction
    /\ size_bytes = Zero
    /\ exit = "running"
    /\ err = ""
    /\ hist = <<>>
    /\ calls = <<>>
    /\ out = <<>>
    /\ isRoot \in BOOLEAN
    /\ fileExists \in BOOLEAN
    /\ swapfileActive \in (IF fileExists THEN BOOLEAN ELSE {FALSE})
    /\ othersActive \in BOOLEAN
    /\ \E f \in FstabStates : fstab = f[1] /\ fstabReadable = f[2]
    /\ pre = Snapshot

(***************************************************************************)
(* Error propagation and return                                            *)
(***************************************************************************)
\* fault: the error is recorded but the while loop goes on with the next token
FailContinue(a, label) ==
    /\ pc' = "main"
    /\ exit' = "nonzero"
    /\ err' = label
    /\ hist' = Append(hist, [act |-> a, ok |-> FALSE])

\* fault: the error ends the run but the process exits zero
FailExitZero(a, label) ==
    /\ pc' = "done"
    /\ exit' = "zero"
    /\ err' = label
    /\ hist' = Append(hist, [act |-> a, ok |-> FALSE])

\* bail! / `?`: the error leaves the action and main at once; the process
\* exits non-zero
Fail(a, label) ==
    /\ pc' = "done"
    /\ exit' = "nonzero"
    /\ err' = label
    /\ hist' = Append(hist, [act |-> a, ok |-> FALSE])

\* an action returned Ok(()): back to the top of the while loop
ReturnOk(a) ==
    /\ pc' = "main"
    /\ hist' = Append(hist, [act |-> a, ok |-> TRUE])
    /\ UNCHANGED <<exit, err>>

\* a step inside an action moves on
Goto(l) ==
    /\ pc' = l
    /\ UNCHANGED <<exit, err, hist>>

\* Command::status(): exit status zero, non-zero, or the utility could not be started
Outcomes == {"ok", "nonzero", "nospawn"}

Call(u, r, a) == [u |-> u, r |-> r, arg |-> a]
Calls(u) == { i \in 1..Len(calls) : calls[i].u = u }
Called(u) == Calls(u) /= {}
CalledOk(u) == \E i \in Calls(u) : calls[i].r = "ok"

(***************************************************************************)
(* main                                                                    *)
(***************************************************************************)
\* fault: no test for an empty action list, the while loop is entered at once
main_start_nohint ==
    /\ pc = "start"
    /\ q' = args
    /\ pc' = "main"
    /\ UNCHANGED <<out, exit>>
    /\ UNCHANGED <<args, cur, size_bytes, err, hist, calls, pre>>
    /\ UNCHANGED env

\* lines 67-74: the usage hint for an empty action list, else fill the queue
main_start ==
    /\ pc = "start"
    /\ IF args = <<>>
       THEN /\ out' = Append(out, "usage_hint")
            /\ pc' = "done"
            /\ exit' = "zero"
            /\ UNCHANGED q
       ELSE /\ q' = args
            /\ pc' = "main"
            /\ UNCHANGED <<out, exit>>
    /\ UNCHANGED <<args, cur, size_bytes, err, hist, calls, pre>>
    /\ UNCHANGED env

\* fault: an unrecognized "--" token is popped and ignored
RECURSIVE collect_flags_lenient(_, _, _)
collect_flags_lenient(queue, replace, persist) ==
    IF queue /= <<>> /\ StartsWith(Head(queue), <<"-", "-">>)
    THEN collect_flags_lenient(Tail(queue), replace \/ Head(queue) = T_replace,
                               persist \/ Head(queue) = T_persist)
    ELSE [ok |-> TRUE, q |-> queue, replace |-> replace, persist |-> persist]

\* lines 93-100: pop the tokens starting with "--" that follow the size token
RECURSIVE collect_flags(_, _, _)
collect_flags(queue, replace, persist) ==
    IF queue /= <<>> /\ StartsWith(Head(queue), <<"-", "-">>)
    THEN LET flag == Head(queue)
         IN  IF flag = T_replace THEN collect_flags(Tail(queue), TRUE, persist)
             ELSE IF flag = T_persist THEN collect_flags(Tail(queue), replace, TRUE)
             ELSE [ok |-> FALSE, q |-> Tail(queue), replace |-> replace, persist |-> persist]
    ELSE [ok |-> TRUE, q |-> queue, replace |-> replace, persist |-> persist]

Dispatch(a, size_tok, replace, persist, label) ==
    /\ cur' = [act |-> a, size_tok |-> size_tok, replace |-> replace, persist |-> persist]
    /\ calls' = <<>>
    /\ pre' = Snapshot
    /\ Goto(label)

\* lines 76-110: one turn of the while loop, up to the call of the action
main_loop ==
    /\ pc = "main"
    /\ IF q = <<>>
       THEN /\ pc' = "done"
            /\ exit' = "zero"
            /\ UNCHANGED <<q, cur, calls, pre, err, hist>>
       ELSE LET tok  == Head(q)
                rest == Tail(q)
            IN  IF tok = T_show
                THEN q' = rest /\ Dispatch("show", <<>>, FALSE, FALSE, "show_swaps")
                ELSE IF tok = T_empty
                THEN q' = rest /\ Dispatch("empty", <<>>, FALSE, FALSE, "empty_swap")
                ELSE IF tok = T_set
                THEN IF rest = <<>>
                     THEN /\ q' = rest
                          /\ Fail("main", "usage: 'set' requires a size argument")
                          /\ UNCHANGED <<cur, calls, pre>>
                     ELSE LET f == collect_flags(Tail(rest), FALSE, FALSE)
                          IN  /\ q' = f.q
                              /\ IF f.ok
                                 THEN Dispatch("set", Head(rest), f.replace, f.persist,
                                               "set_swap")
                                 ELSE /\ Fail("main", "unknown flag for 'set'")
                                      /\ UNCHANGED <<cur, calls, pre>>
                ELSE /\ q' = rest
                     /\ IF StartsWith(tok, <<"-">>)
                        THEN Fail("main", "misplaced flag")
                        ELSE Fail("main", "unknown command")
                     /\ UNCHANGED <<cur, calls, pre>>
    /\ UNCHANGED <<args, size_bytes, out>>
    /\ UNCHANGED env

(***************************************************************************)
(* show_swaps                                                              *)
(***************************************************************************)
\* the header line of /proc/swaps
R_header ==
    [fields |-> << <<"F", "i", "l", "e", "n", "a", "m", "e">>,
                <<"T", "y", "p", "e">>,
                <<"S", "i", "z", "e">>,
                <<"U", "s", "e", "d">>,
                <<"P", "r", "i", "o", "r", "i", "t", "y">> >>,
     sep |-> "\t"]

\* a swapfile of 1048576 KiB, nothing used
R_file ==
    [fields |-> << <<"/", "s", "w", "a", "p", "f", "i", "l", "e">>,
                <<"f", "i", "l", "e">>,
                <<"1", "0", "4", "8", "5", "7", "6">>,
                <<"0">>,
                <<"-", "2">> >>,
     sep |-> " "]

\* a partition of 2097152 KiB, 512 KiB used, tab separated
R_part ==
    [fields |-> << <<"/", "d", "e", "v", "/", "s", "d", "a", "2">>,
                <<"p", "a", "r", "t", "i", "t", "i", "o", "n">>,
                <<"2", "0", "9", "7", "1", "5", "2">>,
                <<"5", "1", "2">>,
                <<"-", "3">> >>,
     sep |-> "\t"]

\* a line of four fields
R_short ==
    [fields |-> << <<"/", "d", "e", "v", "/", "s", "d", "b", "1">>,
                <<"p", "a", "r", "t", "i", "t", "i", "o", "n">>,
                <<"1", "0", "2", "4">>,
                <<"7">> >>,
     sep |-> " "]

\* a size that is no number and a used count of 2^64
R_bad ==
    [fields |-> << <<"/", "x">>,
                <<"f", "i", "l", "e">>,
                <<"1", "k">>,
                <<"1", "8", "4", "4", "6", "7", "4", "4", "0", "7", "3", "7", "0", "9", "5", "5", "1", "6", "1", "6">>,
                <<"-", "2">> >>,
     sep |-> " "]

\* six fields: the third is no number, the fourth is 5
R_long ==
    [fields |-> << <<"/", "a">>,
                <<"b">>,
                <<"f", "i", "l", "e">>,
                <<"5">>,
                <<"1">>,
                <<"-", "2">> >>,
     sep |-> " "]

\* a size of 2^54 KiB = 2^64 bytes
R_huge ==
    [fields |-> << <<"/", "h">>,
                <<"f", "i", "l", "e">>,
                <<"1", "8", "0", "1", "4", "3", "9", "8", "5", "0", "9", "4", "8", "1", "9", "8", "4">>,
                <<"0">>,
                <<"-", "2">> >>,
     sep |-> " "]

\* a size of 2^53 KiB = 2^63 bytes
R_half ==
    [fields |-> << <<"/", "g">>,
                <<"f", "i", "l", "e">>,
                <<"9", "0", "0", "7", "1", "9", "9", "2", "5", "4", "7", "4", "0", "9", "9", "2">>,
                <<"1">>,
                <<"-", "2">> >>,
     sep |-> " "]

R_empty == [fields |-> <<>>, sep |-> " "]

\* the rows joined by their separator
RECURSIVE Join(_, _)
Join(fields, sep) ==
    IF fields = <<>> THEN <<>>
    ELSE IF Len(fields) = 1 THEN fields[1]
    ELSE fields[1] \o <<sep>> \o Join(Tail(fields), sep)

\* the text of a table: each row followed by a newline, the last one only if nl
RECURSIVE Render(_, _)
Render(rows, nl) ==
    IF rows = <<>> THEN <<>>
    ELSE Join(rows[1].fields, rows[1].sep)
         \o (IF Len(rows) > 1 \/ nl THEN <<"\n">> ELSE <<>>)
         \o Render(Tail(rows), nl)

\* contents of /proc/swaps, as rows: the header followed by the active areas
RowTables ==
    { [rows |-> <<R_header>>, nl |-> TRUE],
      [rows |-> <<R_header, R_file>>, nl |-> TRUE],
      [rows |-> <<R_header, R_part>>, nl |-> FALSE],
      [rows |-> <<R_header, R_short>>, nl |-> TRUE],
      [rows |-> <<R_header, R_bad>>, nl |-> TRUE],
      [rows |-> <<R_header, R_long>>, nl |-> TRUE],
      [rows |-> <<R_header, R_file, R_part>>, nl |-> TRUE],
      [rows |-> <<R_header, R_short, R_file>>, nl |-> TRUE],
      [rows |-> <<R_header, R_empty, R_part>>, nl |-> TRUE],
      [rows |-> <<R_header, R_bad, R_long>>, nl |-> FALSE],
      [rows |-> <<R_header, R_huge>>, nl |-> TRUE],
      [rows |-> <<R_header, R_half, R_file>>, nl |-> TRUE],
      [rows |-> <<R_header, R_half, R_half>>, nl |-> TRUE] }

\* what fs::read_to_string("/proc/swaps") can return
SwapTables == { Render(t.rows, t.nl) : t \in RowTables }

\* the first position of s that holds a character of cs, 0 if there is none
FirstOf(s, cs) ==
    IF \E i \in 1..Len(s) : s[i] \in cs
    THEN CHOOSE i \in 1..Len(s) : s[i] \in cs /\ \A j \in 1..(i - 1) : s[j] \notin cs
    ELSE 0

\* str::lines: split at "\n", no line for the empty rest after the last "\n"
RECURSIVE lines(_)
lines(text) ==
    IF text = <<>> THEN <<>>
    ELSE LET i == FirstOf(text, {"\n"})
         IN  IF i = 0 THEN <<text>>
             ELSE <<SubSeq(text, 1, i - 1)>> \o lines(SubSeq(text, i + 1, Len(text)))

\* the first position of s that holds no white space, 0 if there is none
FirstPart(s) ==
    IF \E i \in 1..Len(s) : s[i] \notin {" ", "\t"}
    THEN CHOOSE i \in 1..Len(s) :
             s[i] \notin {" ", "\t"} /\ \A j \in 1..(i - 1) : s[j] \in {" ", "\t"}
    ELSE 0

\* str::split_whitespace: the maximal runs of characters that are not white space
RECURSIVE split_whitespace(_)
split_whitespace(line) ==
    LET b == FirstPart(line)
    IN  IF b = 0 THEN <<>>
        ELSE LET rest == SubSeq(line, b, Len(line))
                 e    == FirstOf(rest, {" ", "\t"})
             IN  IF e = 0 THEN <<rest>>
                 ELSE <<SubSeq(rest, 1, e - 1)>>
                      \o split_whitespace(SubSeq(rest, e + 1, Len(rest)))

\* the product modulo 2^64 and whether it overflowed
overflowing_mul(a, b) ==
    LET p == MulSeq(a, b, 0, 1)
    IN  [over |-> \/ \E i \in (NLimbs + 1)..(2 * NLimbs) : p[i] /= 0
                  \/ p[NLimbs] >= U64TopLimit,
         val  |-> [i \in 1..NLimbs |->
                     IF i = NLimbs THEN p[i] % U64TopLimit ELSE p[i]]]

\* lines 163-164: parts[i].parse().unwrap_or(0)
parse_or_zero(part) ==
    LET n == parse_u64(part) IN IF n.ok THEN n.val ELSE Zero

\* lines 165-166: total += kb * 1024; an overflow panics in a build with
\* overflow checks and wraps in one without
add_kb(total, kb, build) ==
    LET m == overflowing_mul(kb, Pow1024(1))
        t == overflowing_add(total, m.val)
    IN  [panic |-> (m.over \/ t.over) /\ build = "checked", val |-> t.val]

\* lines 159-169: the loop over the lines after the header
RECURSIVE show_loop(_, _, _)
show_loop(ls, acc, build) ==
    IF ls = <<>> \/ acc.panic THEN acc
    ELSE LET parts == split_whitespace(Head(ls))
         IN  IF Len(parts) >= 5
             THEN LET sz == add_kb(acc.total_size, parse_or_zero(parts[3]), build)
                      us == add_kb(acc.total_used, parse_or_zero(parts[4]), build)
                  IN  IF sz.panic \/ us.panic
                      THEN [acc EXCEPT !.panic = TRUE]
                      ELSE show_loop(Tail(ls),
                                     [acc EXCEPT !.total_size = sz.val,
                                                 !.total_used = us.val,
                                                 !.echoed = Append(acc.echoed, Head(ls))],
                                     build)
             ELSE show_loop(Tail(ls), acc, build)

\* lines 154-175: what show prints for a text: the header, the echoed lines
\* and the two totals handed to human_readable_bytes
show_report(text, build) ==
    LET ls == lines(text)
    IN  show_loop(IF ls = <<>> THEN <<>> ELSE Tail(ls),
                  [header |-> IF ls = <<>> THEN <<>> ELSE Head(ls),
                   echoed |-> <<>>, total_size |-> Zero, total_used |-> Zero,
                   panic |-> FALSE],
                  build)

\* a read of /proc/swaps that succeeded, the build, and what show then prints
ShowRuns ==
    { [text |-> text, report |-> show_report(text, build)] :
        text \in SwapTables, build \in {"checked", "unchecked"} }

\* lines 152-177
show_swaps ==
    /\ pc = "show_swaps"
    /\ \/ /\ calls' = Append(calls, Call("read /proc/swaps", "err", <<>>))
          /\ Fail("show", "reading /proc/swaps")
          /\ UNCHANGED out
       \/ \E run \in ShowRuns :
            /\ out' = Append(out, "show")
            /\ IF run.report.panic
               THEN /\ calls' = Append(calls, Call("read /proc/swaps", "ok", run.text))
                    /\ Fail("show", "panic: arithmetic overflow")
               ELSE /\ calls' = calls \o <<Call("read /proc/swaps", "ok", run.text),
                                           Call("stdout", "ok", run.report)>>
                    /\ ReturnOk("show")
    /\ UNCHANGED <<args, q, cur, size_bytes, pre>>
    /\ UNCHANGED env

(***************************************************************************)
(* empty_swap                                                              *)
(***************************************************************************)
\* the effect of `swapoff -a` on the active swap areas; a utility that fails
\* or cannot be started is taken to change nothing
SwapoffAllEffect(r) ==
    IF r = "ok"
    THEN othersActive' = FALSE /\ swapfileActive' = FALSE
    ELSE UNCHANGED <<othersActive, swapfileActive>>

\* the effect of `swapon -a`: the configured areas may come back
SwaponAllEffect(r) ==
    IF r = "ok"
    THEN /\ othersActive' \in {othersActive, TRUE}
         /\ swapfileActive' \in
              {swapfileActive,
               swapfileActive \/ (fileExists /\ Contains(fstab, fstab_line))}
    ELSE UNCHANGED <<othersActive, swapfileActive>>

\* fault: the privilege check always passes
require_root_always == TRUE

\* lines 115-122: Ok iff the effective user id is 0
require_root == isRoot

\* lines 180-181: require_root, then the first message
empty_swap ==
    /\ pc = "empty_swap"
    /\ calls' = Append(calls, Call("geteuid", IF isRoot THEN "ok" ELSE "denied", <<>>))
    /\ IF require_root
       THEN /\ out' = Append(out, "empty")
            /\ Goto("empty_swapoff")
       ELSE /\ Fail("empty", "requires root")
            /\ UNCHANGED out
    /\ UNCHANGED <<args, q, cur, size_bytes, pre>>
    /\ UNCHANGED env

\* fault: the exit status of swapoff -a is dropped, swapon -a follows anyway
empty_swapoff_ignore ==
    /\ pc = "empty_swapoff"
    /\ \E r \in Outcomes :
         /\ calls' = Append(calls, Call("swapoff -a", r, <<>>))
         /\ SwapoffAllEffect(r)
         /\ Goto("empty_swapon")
    /\ UNCHANGED <<args, q, cur, size_bytes, out, pre>>
    /\ UNCHANGED <<isRoot, fileExists, fstab, fstabReadable>>

\* lines 182-189: swapoff -a
empty_swapoff ==
    /\ pc = "empty_swapoff"
    /\ \E r \in Outcomes :
         /\ calls' = Append(calls, Call("swapoff -a", r, <<>>))
         /\ SwapoffAllEffect(r)
         /\ IF r = "ok"
            THEN Goto("empty_swapon")
            ELSE Fail("empty", IF r = "nonzero" THEN "swapoff failed"
                               ELSE "running swapoff -a")
    /\ UNCHANGED <<args, q, cur, size_bytes, out, pre>>
    /\ UNCHANGED <<isRoot, fileExists, fstab, fstabReadable>>

\* lines 190-198: swapon -a
empty_swapon ==
    /\ pc = "empty_swapon"
    /\ \E r \in Outcomes :
         /\ calls' = Append(calls, Call("swapon -a", r, <<>>))
         /\ SwaponAllEffect(r)
         /\ IF r = "ok"
            THEN ReturnOk("empty")
            ELSE Fail("empty", IF r = "nonzero" THEN "swapon failed"
                               ELSE "running swapon -a")
    /\ UNCHANGED <<args, q, cur, size_bytes, out, pre>>
    /\ UNCHANGED <<isRoot, fileExists, fstab, fstabReadable>>

(***************************************************************************)
(* set_swap                                                                *)
(***************************************************************************)
\* fault: a size token that does not parse counts as 0 bytes
set_swap_unparsed ==
    /\ pc = "set_swap"
    /\ calls' = Append(calls, Call("geteuid", IF isRoot THEN "ok" ELSE "denied", <<>>))
    /\ IF ~require_root
       THEN /\ Fail("set", "requires root")
            /\ UNCHANGED <<out, size_bytes>>
       ELSE /\ out' = Append(out, "set")
            /\ LET p == parse_human_size(cur.size_tok)
               IN  size_bytes' = (IF p.ok THEN p.val ELSE Zero)
            /\ Goto(IF cur.replace THEN "set_swapoff_all" ELSE "set_stale")
    /\ UNCHANGED <<args, q, cur, pre>>
    /\ UNCHANGED env

\* lines 202-207: require_root, the request message, the size parse
set_swap ==
    /\ pc = "set_swap"
    /\ calls' = Append(calls, Call("geteuid", IF isRoot THEN "ok" ELSE "denied", <<>>))
    /\ IF ~require_root
       THEN /\ Fail("set", "requires root")
            /\ UNCHANGED <<out, size_bytes>>
       ELSE /\ out' = Append(out, "set")
            /\ LET p == parse_human_size(cur.size_tok)
               IN  IF p.ok
                   THEN /\ size_bytes' = p.val
                        /\ Goto(IF cur.replace THEN "set_swapoff_all" ELSE "set_stale")
                   ELSE /\ Fail("set", p.e)
                        /\ UNCHANGED size_bytes
    /\ UNCHANGED <<args, q, cur, pre>>
    /\ UNCHANGED env

\* fault: the exit status of swapoff -a is dropped
set_swapoff_all_ignore ==
    /\ pc = "set_swapoff_all"
    /\ \E r \in Outcomes :
         /\ calls' = Append(calls, Call("swapoff -a", r, <<>>))
         /\ SwapoffAllEffect(r)
         /\ Goto("set_stale")
    /\ UNCHANGED <<args, q, cur, size_bytes, out, pre>>
    /\ UNCHANGED <<isRoot, fileExists, fstab, fstabReadable>>

\* lines 209-218: swapoff -a, only with --replace
set_swapoff_all ==
    /\ pc = "set_swapoff_all"
    /\ \E r \in Outcomes :
         /\ calls' = Append(calls, Call("swapoff -a", r, <<>>))
         /\ SwapoffAllEffect(r)
         /\ IF r = "ok"
            THEN Goto("set_stale")
            ELSE Fail("set", IF r = "nonzero" THEN "swapoff -a failed" ELSE "swapoff -a")
    /\ UNCHANGED <<args, q, cur, size_bytes, out, pre>>
    /\ UNCHANGED <<isRoot, fileExists, fstab, fstabReadable>>

\* lines 220-221: path.exists()
set_path_exists ==
    /\ pc = "set_stale"
    /\ calls' = Append(calls, Call("path.exists", IF fileExists THEN "yes" ELSE "no", <<>>))
    /\ Goto(IF fileExists THEN "set_swapoff_stale" ELSE "set_fallocate_probe")
    /\ UNCHANGED <<args, q, cur, size_bytes, out, pre>>
    /\ UNCHANGED env

\* fault: a failing swapoff <path> ends the action
set_swapoff_stale_fatal ==
    /\ pc = "set_swapoff_stale"
    /\ \E r \in Outcomes :
         /\ calls' = Append(calls, Call("swapoff path", r, <<>>))
         /\ swapfileActive' = (IF r = "ok" THEN FALSE ELSE swapfileActive)
         /\ IF r = "ok" THEN Goto("set_remove_file") ELSE Fail("set", "swapoff failed")
    /\ UNCHANGED <<args, q, cur, size_bytes, out, pre>>
    /\ UNCHANGED <<isRoot, fileExists, othersActive, fstab, fstabReadable>>

\* line 224: swapoff <path>, its result dropped
set_swapoff_stale ==
    /\ pc = "set_swapoff_stale"
    /\ \E r \in Outcomes :
         /\ calls' = Append(calls, Call("swapoff path", r, <<>>))
         /\ swapfileActive' = (IF r = "ok" THEN FALSE ELSE swapfileActive)
    /\ Goto("set_remove_file")
    /\ UNCHANGED <<args, q, cur, size_bytes, out, pre>>
    /\ UNCHANGED <<isRoot, fileExists, othersActive, fstab, fstabReadable>>

\* fault: a failed deletion is ignored
set_remove_file_ignore ==
    /\ pc = "set_remove_file"
    /\ \E r \in {"ok", "err"} :
         /\ calls' = Append(calls, Call("remove_file", r, <<>>))
         /\ IF r = "ok"
            THEN fileExists' = FALSE /\ swapfileActive' = FALSE
            ELSE UNCHANGED <<fileExists, swapfileActive>>
         /\ Goto("set_fallocate_probe")
    /\ UNCHANGED <<args, q, cur, size_bytes, out, pre>>
    /\ UNCHANGED <<isRoot, othersActive, fstab, fstabReadable>>

\* line 225: fs::remove_file(path)
set_remove_file ==
    /\ pc = "set_remove_file"
    /\ \E r \in {"ok", "err"} :
         /\ calls' = Append(calls, Call("remove_file", r, <<>>))
         /\ IF r = "ok"
            THEN /\ fileExists' = FALSE
                 /\ swapfileActive' = FALSE
                 /\ Goto("set_fallocate_probe")
            ELSE /\ Fail("set", "removing existing swapfile")
                 /\ UNCHANGED <<fileExists, swapfileActive>>
    /\ UNCHANGED <<args, q, cur, size_bytes, out, pre>>
    /\ UNCHANGED <<isRoot, othersActive, fstab, fstabReadable>>

\* a run of fallocate or dd that exits zero leaves the file in place
AllocEffect(r) ==
    IF r = "ok" THEN fileExists' = TRUE ELSE UNCHANGED fileExists

\* lines 231-237: fallocate -l <size_token> <path>, only .is_ok() of its status used
set_fallocate_probe ==
    /\ pc = "set_fallocate_probe"
    /\ \E r \in Outcomes :
         /\ calls' = Append(calls, Call("fallocate", r, cur.size_tok))
         /\ AllocEffect(r)
         /\ Goto(IF r = "nospawn" THEN "set_dd" ELSE "set_fallocate")
    /\ UNCHANGED <<args, q, cur, size_bytes, out, pre>>
    /\ UNCHANGED <<isRoot, swapfileActive, othersActive, fstab, fstabReadable>>

\* lines 238-246: fallocate -l <size_token> <path> again; created = s.success()
set_fallocate ==
    /\ pc = "set_fallocate"
    /\ \E r \in Outcomes :
         /\ calls' = Append(calls, Call("fallocate", r, cur.size_tok))
         /\ AllocEffect(r)
         /\ CASE r = "ok"      -> Goto("set_chmod")
              [] r = "nonzero" -> Goto("set_dd")
              [] r = "nospawn" -> Fail("set", "fallocate: spawn failed")
    /\ UNCHANGED <<args, q, cur, size_bytes, out, pre>>
    /\ UNCHANGED <<isRoot, swapfileActive, othersActive, fstab, fstabReadable>>

\* line 250: (size_bytes + 1024 * 1024 - 1) / (1024 * 1024); an overflowing
\* addition panics in a build with overflow checks and wraps in one without
dd_count(build) ==
    LET s == overflowing_add(size_bytes, MiBMinusOne)
    IN  [panic |-> s.over /\ build = "checked", mb |-> DivMiB(s.val)]

\* lines 248-268: the dd fallback
set_dd ==
    /\ pc = "set_dd"
    /\ \E build \in {"checked", "unchecked"} :
         LET c == dd_count(build)
         IN  IF c.panic
             THEN /\ Fail("set", "panic: attempt to add with overflow")
                  /\ UNCHANGED <<calls, fileExists>>
             ELSE /\ \E r \in Outcomes :
                       /\ calls' = Append(calls, Call("dd", r, c.mb))
                       /\ AllocEffect(r)
                       /\ IF r = "ok"
                          THEN Goto("set_chmod")
                          ELSE Fail("set", IF r = "nonzero"
                                           THEN "dd failed to create swapfile"
                                           ELSE "running dd to create swapfile")
    /\ UNCHANGED <<args, q, cur, size_bytes, out, pre>>
    /\ UNCHANGED <<isRoot, swapfileActive, othersActive, fstab, fstabReadable>>

\* fault: the step after chmod is swapon, mkswap is left out
set_chmod_skip_mkswap ==
    /\ pc = "set_chmod"
    /\ \E r \in Outcomes :
         calls' = Append(calls, Call("chmod", r, <<>>))
    /\ Goto("set_swapon")
    /\ UNCHANGED <<args, q, cur, size_bytes, out, pre>>
    /\ UNCHANGED env

\* line 271: chmod 600 <path>, its result dropped
set_chmod ==
    /\ pc = "set_chmod"
    /\ \E r \in Outcomes :
         calls' = Append(calls, Call("chmod", r, <<>>))
    /\ Goto("set_mkswap")
    /\ UNCHANGED <<args, q, cur, size_bytes, out, pre>>
    /\ UNCHANGED env

\* lines 273-279: mkswap <path>
set_mkswap ==
    /\ pc = "set_mkswap"
    /\ \E r \in Outcomes :
         /\ calls' = Append(calls, Call("mkswap", r, <<>>))
         /\ IF r = "ok"
            THEN Goto("set_swapon")
            ELSE Fail("set", IF r = "nonzero" THEN "mkswap failed" ELSE "mkswap")
    /\ UNCHANGED <<args, q, cur, size_bytes, out, pre>>
    /\ UNCHANGED env

\* fault: the /etc/fstab step follows swapon whether or not --persist was given
set_swapon_persist_always ==
    /\ pc = "set_swapon"
    /\ \E r \in Outcomes :
         /\ calls' = Append(calls, Call("swapon path", r, <<>>))
         /\ IF r = "ok"
            THEN /\ swapfileActive' = TRUE
                 /\ Goto("set_persist")
            ELSE /\ Fail("set", IF r = "nonzero" THEN "swapon failed" ELSE "swapon")
                 /\ UNCHANGED swapfileActive
    /\ UNCHANGED <<args, q, cur, size_bytes, out, pre>>
    /\ UNCHANGED <<isRoot, fileExists, othersActive, fstab, fstabReadable>>

\* lines 281-293 (and 318 without --persist): swapon <path>
set_swapon ==
    /\ pc = "set_swapon"
    /\ \E r \in Outcomes :
         /\ calls' = Append(calls, Call("swapon path", r, <<>>))
         /\ IF r = "ok"
            THEN /\ swapfileActive' = TRUE
                 /\ IF cur.persist THEN Goto("set_persist") ELSE ReturnOk("set")
            ELSE /\ Fail("set", IF r = "nonzero" THEN "swapon failed" ELSE "swapon")
                 /\ UNCHANGED swapfileActive
    /\ UNCHANGED <<args, q, cur, size_bytes, out, pre>>
    /\ UNCHANGED <<isRoot, fileExists, othersActive, fstab, fstabReadable>>

\* line 304: fs::read_to_string(fstab).unwrap_or_default()
read_fstab == IF fstabReadable THEN fstab ELSE <<>>

\* lines 295-318: the /etc/fstab entry, only with --persist
set_persist ==
    /\ pc = "set_persist"
    /\ LET existing == read_fstab
           read     == Call("read /etc/fstab", IF fstabReadable THEN "ok" ELSE "err", <<>>)
       IN  IF Contains(existing, fstab_line)
           THEN /\ calls' = Append(calls, read)
                /\ UNCHANGED fstab
                /\ ReturnOk("set")
           ELSE \E r \in {"ok", "open_err", "write_err"} :
                  /\ calls' = calls \o <<read, Call("append /etc/fstab", r, <<>>)>>
                  /\ CASE r = "ok" ->
                            /\ fstab' = fstab \o fstab_line
                            /\ ReturnOk("set")
                       [] r = "open_err" ->
                            /\ UNCHANGED fstab
                            /\ Fail("set", "open /etc/fstab for appending")
                       [] r = "write_err" ->
                            /\ \E k \in 0..(Len(fstab_line) - 1) :
                                 fstab' = fstab \o SubSeq(fstab_line, 1, k)
                            /\ Fail("set", "writing to /etc/fstab")
    /\ UNCHANGED <<args, q, cur, size_bytes, out, pre>>
    /\ UNCHANGED <<isRoot, fileExists, swapfileActive, othersActive, fstabReadable>>

(***************************************************************************)
(* Specifications                                                          *)
(***************************************************************************)
Next ==
    \/ main_start
    \/ main_loop
    \/ show_swaps
    \/ empty_swap
    \/ empty_swapoff
    \/ empty_swapon
    \/ set_swap
    \/ set_swapoff_all
    \/ set_path_exists
    \/ set_swapoff_stale
    \/ set_remove_file
    \/ set_fallocate_probe
    \/ set_fallocate
    \/ set_dd
    \/ set_chmod
    \/ set_mkswap
    \/ set_swapon
    \/ set_persist

Spec == Init /\ [][Next]_vars

(***************************************************************************)
(* The size parser on its own: set_swap called as root with a size token   *)
(* drawn from SizeTokens                                                   *)
(***************************************************************************)
SizeAlphabet == {"0", "1", "5", "9", "K", "m", "G", "t", "X", ".", "+", "-"}

SpecialTokens ==
    { <<"5", "1", "2", "M">>, <<"1", "0", "2", "4">>, <<"0", "0", "7", "k">>,
      <<"1", "6", "7", "7", "7", "2", "1", "5", "T">>,
      <<"1", "6", "7", "7", "7", "2", "1", "6", "T">>,
      <<"4", "2", "9", "4", "9", "6", "7", "2", "9", "6", "G">>,
      <<"1", "7", "1", "7", "9", "8", "6", "9", "1", "8", "4", "G">>,
      <<"1", "8", "0", "1", "4", "3", "9", "8", "5", "0", "9", "4", "8", "1", "9", "8",
        "3", "K">>,
      <<"1", "8", "4", "4", "6", "7", "4", "4", "0", "7", "3", "7", "0", "9", "5", "5",
        "1", "6", "1", "5">>,
      <<"1", "8", "4", "4", "6", "7", "4", "4", "0", "7", "3", "7", "0", "9", "5", "5",
        "1", "6", "1", "6">>,
      <<"1", "8", "4", "4", "6", "7", "4", "4", "0", "7", "3", "7", "0", "9", "5", "5",
        "1", "6", "1", "6", "K">>,
      <<"+", "5", "G">>, <<"-", "5", "G">>, <<"1", ".", "5", "G">> }

SizeTokens ==
    UNION { [1..n -> SizeAlphabet] : n \in 0..MaxTokLen } \cup SpecialTokens

InitParse ==
    /\ \E t \in SizeTokens :
         /\ args = <<T_set, t>>
         /\ cur = [act |-> "set", size_tok |-> t, replace |-> FALSE, persist |-> FALSE]
    /\ q = <<>>
    /\ pc = "set_swap"
    /\ size_bytes = Zero
    /\ exit = "running"
    /\ err = ""
    /\ hist = <<>>
    /\ calls = <<>>
    /\ out = <<>>
    /\ isRoot = TRUE
    /\ fileExists = FALSE
    /\ swapfileActive = FALSE
    /\ othersActive = TRUE
    /\ fstab = fstab_line
    /\ fstabReadable = TRUE
    /\ pre = Snapshot

NextParse == set_swap

SpecParse == InitParse /\ [][NextParse]_vars

(***************************************************************************)
(* The allocation steps on their own: set_swap called as root, no swapfile *)
(* in place, with a size token drawn from DdTokens                         *)
(***************************************************************************)
\* 0, 1, 2^20 - 1, 2^20, 2^20 + 1, 5 GiB, 2^64 - 2^20, 2^64 - 2^20 + 1, 2^64 - 1
DdTokens ==
    { <<"0">>, <<"1">>, <<"1", "0", "4", "8", "5", "7", "5">>, <<"1", "M">>,
      <<"1", "0", "4", "8", "5", "7", "7">>, T_5G,
      <<"1", "8", "4", "4", "6", "7", "4", "4", "0", "7", "3", "7", "0", "8", "5", "0",
        "3", "0", "4", "0">>,
      <<"1", "8", "4", "4", "6", "7", "4", "4", "0", "7", "3", "7", "0", "8", "5", "0",
        "3", "0", "4", "1">>,
      <<"1", "8", "4", "4", "6", "7", "4", "4", "0", "7", "3", "7", "0", "9", "5", "5",
        "1", "6", "1", "5">> }

InitDd ==
    /\ \E t \in DdTokens :
         /\ args = <<T_set, t>>
         /\ cur = [act |-> "set", size_tok |-> t, replace |-> FALSE, persist |-> FALSE]
    /\ q = <<>>
    /\ pc = "set_swap"
    /\ size_bytes = Zero
    /\ exit = "running"
    /\ err = ""
    /\ hist = <<>>
    /\ calls = <<>>
    /\ out = <<>>
    /\ isRoot = TRUE
    /\ fileExists = FALSE
    /\ swapfileActive = FALSE
    /\ othersActive \in BOOLEAN
    /\ fstab = fstab_line
    /\ fstabReadable = TRUE
    /\ pre = Snapshot

NextDd ==
    \/ set_swap
    \/ set_path_exists
    \/ set_fallocate_probe
    \/ set_fallocate
    \/ set_dd

SpecDd == InitDd /\ [][NextDd]_vars

(***************************************************************************)
(* Properties                                                              *)
(***************************************************************************)
Last(s) == s[Len(s)]

\* the action `a` was the last thing to end, with result ok
Ended(a, ok) ==
    /\ cur.act = a
    /\ pc \in {"main", "done"}
    /\ hist /= <<>>
    /\ Last(hist) = [act |-> a, ok |-> ok]

\* the current action has done nothing but ask for the effective user id
OnlyPrivilegeCheck == \A i \in 1..Len(calls) : calls[i].u = "geteuid"

\* swap areas, swapfile and /etc/fstab are as they were when the action started
Untouched == Snapshot = pre

\* C1: fail-fast chaining.  Once the run has failed it is over: no token is
\* popped or dispatched, no utility is invoked, no file or swap area changes and
\* nothing is printed any more; in particular nothing undoes completed steps.
C1_FailFast ==
    [][exit = "nonzero" =>
         /\ pc = "done"
         /\ UNCHANGED <<q, cur, hist, calls, out>>
         /\ UNCHANGED env]_vars

\* a set --replace failed after swapoff -a had disabled the other areas, with a
\* token still queued
C1_Witness ==
    /\ exit = "nonzero"
    /\ q /= <<>>
    /\ cur.act = "set"
    /\ CalledOk("swapoff -a")
    /\ pre.others /\ ~othersActive /\ ~swapfileActive

\* what the steps of the current action say when it has returned Ok
StepsOk ==
    CASE cur.act = "show"  -> CalledOk("read /proc/swaps")
      [] cur.act = "empty" -> CalledOk("swapoff -a") /\ CalledOk("swapon -a")
      [] cur.act = "set"   -> /\ CalledOk("fallocate") \/ CalledOk("dd")
                              /\ CalledOk("mkswap")
                              /\ CalledOk("swapon path")
                              /\ cur.persist => Contains(fstab, fstab_line)
      [] cur.act = "none"  -> TRUE

\* C2: the exit status.  The run ends with status zero iff the whole queue was
\* consumed and every action returned Ok, each after its steps succeeded; it
\* ends non-zero iff the last thing that ended is a failure, and everything
\* before that failure succeeded (the failure is the first one).
C2_ExitStatus ==
    /\ pc = "done" =>
         /\ exit \in {"zero", "nonzero"}
         /\ exit = "zero" <=> (q = <<>> /\ \A i \in 1..Len(hist) : hist[i].ok)
         /\ exit = "nonzero" <=> (hist /= <<>> /\ ~Last(hist).ok)
         /\ \A i \in 1..(Len(hist) - 1) : hist[i].ok
    /\ pc /= "done" => exit = "running"
    /\ (pc \in {"main", "done"} /\ hist /= <<>> /\ Last(hist).ok) => StepsOk

\* a chain whose first action succeeded and whose second failed
C2_Witness ==
    /\ pc = "done"
    /\ exit = "nonzero"
    /\ Len(hist) = 2
    /\ hist[1].ok
    /\ hist[2] = [act |-> "empty", ok |-> FALSE]

\* C3: without root a Set or Empty action fails at its first step, having
\* invoked no utility and changed neither the swapfile, /etc/fstab nor the
\* active swap areas.
C3_RootRequired ==
    (~isRoot /\ cur.act \in {"set", "empty"}) =>
        /\ OnlyPrivilegeCheck
        /\ Untouched
        /\ pc \notin {"set_swap", "empty_swap"} =>
             /\ pc = "done"
             /\ exit = "nonzero"
             /\ err = "requires root"
             /\ Last(hist) = [act |-> cur.act, ok |-> FALSE]

\* set --replace refused for a non-root user while a stale active swapfile exists
C3_Witness ==
    /\ ~isRoot
    /\ cur.act = "set"
    /\ cur.replace
    /\ pc = "done"
    /\ fileExists /\ swapfileActive /\ othersActive

\* the step of set_swap on a size token the parser rejects ends the run there:
\* nothing but the privilege check was done, no file or swap area changed, and
\* the tokens after the set stay in the queue
RejectedAtFirstStep(e) ==
    /\ pc' = "done"
    /\ exit' = "nonzero"
    /\ err' = e
    /\ calls' = <<Call("geteuid", IF isRoot THEN "ok" ELSE "denied", <<>>)>>
    /\ hist' = Append(hist, [act |-> "set", ok |-> FALSE])
    /\ UNCHANGED q
    /\ UNCHANGED env

\* C4 as claimed: a set with a rejected size token fails at its size parse,
\* before any utility or file is touched, and nothing after it is executed.
C4_FailsAtSizeParse ==
    [][(pc = "set_swap" /\ ~parse_human_size(cur.size_tok).ok) =>
         RejectedAtFirstStep(parse_human_size(cur.size_tok).e)]_vars

\* C4 (amended): a set with a rejected size token that main dispatches fails at
\* its size parse when the user is root and at the privilege check otherwise;
\* either way no utility is invoked, no file or swap area changes (swapoff -a is
\* not run with --replace either) and nothing after it is executed.
C4_BadSizeRejected ==
    [][(pc = "set_swap" /\ ~parse_human_size(cur.size_tok).ok) =>
         RejectedAtFirstStep(IF isRoot THEN parse_human_size(cur.size_tok).e
                             ELSE "requires root")]_vars

\* ["set", "bad", "show"] as root: failed on the suffix, show still queued
C4_Witness ==
    /\ isRoot
    /\ args = <<T_set, T_bad, T_show>>
    /\ pc = "done"
    /\ err = "unknown suffix"
    /\ q = <<T_show>>
    /\ out = <<"set">>

\* the "--" tokens at the front of s include one that is no flag of set
BadFlagRun(s) ==
    \E i \in 1..Len(s) :
        /\ \A j \in 1..i : StartsWith(s[j], <<"-", "-">>)
        /\ s[i] \notin {T_replace, T_persist}

RejectedWith(e) ==
    /\ pc' = "done"
    /\ exit' = "nonzero"
    /\ err' = e
    /\ UNCHANGED <<cur, calls, out>>
    /\ UNCHANGED env

\* C5: a malformed set is rejected by main.  When "set" is popped and the queue
\* is then empty the run fails with the usage error; when the "--" tokens that
\* follow the size token include an unrecognized one it fails with the
\* unknown-flag error; in both cases set_swap is not entered, so no utility
\* runs and no file changes.
C5_MalformedSet ==
    [][(pc = "main" /\ q /= <<>> /\ Head(q) = T_set) =>
         /\ Tail(q) = <<>> => RejectedWith("usage: 'set' requires a size argument")
         /\ (Tail(q) /= <<>> /\ BadFlagRun(Tail(Tail(q)))) =>
                RejectedWith("unknown flag for 'set'")]_vars

\* set 5G --replace --bogus as root
C5_Witness ==
    /\ isRoot
    /\ args = <<T_set, T_5G, T_replace, T_bogus>>
    /\ pc = "done"
    /\ err = "unknown flag for 'set'"
    /\ hist = <<[act |-> "main", ok |-> FALSE]>>
    /\ calls = <<>>
    /\ Untouched

\* the place of a step in the order of set_swap
StepRank(u) ==
    CASE u = "geteuid"            -> 1
      [] u = "swapoff -a"         -> 2
      [] u = "path.exists"        -> 3
      [] u = "swapoff path"       -> 4
      [] u = "remove_file"        -> 5
      [] u = "fallocate"          -> 6
      [] u = "dd"                 -> 7
      [] u = "chmod"              -> 8
      [] u = "mkswap"             -> 9
      [] u = "swapon path"        -> 10
      [] u = "read /etc/fstab"    -> 11
      [] u = "append /etc/fstab"  -> 12

\* C6: the order of the steps of one Set action: privilege check, swapoff -a
\* (only with replace), swapoff and removal of the existing swapfile (only if
\* the path exists), allocation, chmod, mkswap, swapon, /etc/fstab (only with
\* persist).  mkswap runs only after fallocate or dd exited zero, swapon only
\* after mkswap exited zero.
C6_SetOrder ==
    cur.act = "set" =>
        /\ \A i \in 1..(Len(calls) - 1) :
              StepRank(calls[i].u) <= StepRank(calls[i + 1].u)
        /\ calls /= <<>> => calls[1].u = "geteuid"
        /\ Called("swapoff -a") => cur.replace
        /\ (Called("swapoff path") \/ Called("remove_file")) =>
              \E i \in Calls("path.exists") : calls[i].r = "yes"
        /\ Called("remove_file") => Called("swapoff path")
        /\ Called("chmod") => (CalledOk("fallocate") \/ CalledOk("dd"))
        /\ Called("mkswap") => (Called("chmod") /\ (CalledOk("fallocate") \/ CalledOk("dd")))
        /\ Called("swapon path") => CalledOk("mkswap")
        /\ (Called("read /etc/fstab") \/ Called("append /etc/fstab")) =>
              (cur.persist /\ CalledOk("swapon path"))

\* a set --replace --persist that went through every step, dd included
C6_Witness ==
    /\ Ended("set", TRUE)
    /\ cur.replace /\ cur.persist
    /\ CalledOk("swapoff -a")
    /\ Called("remove_file")
    /\ CalledOk("dd")
    /\ CalledOk("append /etc/fstab")

Utilities ==
    {"swapoff -a", "swapon -a", "swapoff path", "fallocate", "dd", "chmod", "mkswap",
     "swapon path"}

\* C7 as claimed: no step is retried; within one Set or Empty action every
\* utility is invoked at most once.
C7_NoRetry ==
    cur.act \in {"set", "empty"} =>
        \A u \in Utilities : Cardinality(Calls(u)) <= 1

\* C8 as claimed: set --replace is atomic; when the action has ended either the
\* new swapfile is active or the areas active before it are still active.
C8_Atomic ==
    ((Ended("set", TRUE) \/ Ended("set", FALSE)) /\ cur.replace) =>
        \/ swapfileActive
        \/ (pre.others => othersActive) /\ (pre.swapfile => swapfileActive)

\* C8 (amended): set --replace is not atomic.  When it succeeds the new swapfile
\* is active and the other areas are disabled; when it fails before swapoff -a
\* is invoked nothing has changed; when it fails after swapoff -a exited zero
\* the other areas stay disabled (nothing re-enables them) and the swapfile is
\* active only if swapon had already exited zero.
C8_ReplaceNotAtomic ==
    cur.replace =>
        /\ Ended("set", TRUE) => (swapfileActive /\ ~othersActive)
        /\ (Ended("set", FALSE) /\ ~Called("swapoff -a")) => Untouched
        /\ (Ended("set", FALSE) /\ CalledOk("swapoff -a")) =>
              (~othersActive /\ (swapfileActive <=> CalledOk("swapon path")))

\* a set --replace that failed at mkswap: the old areas are off, the new one is not on
C8_Witness ==
    /\ Ended("set", FALSE)
    /\ cur.replace
    /\ err = "mkswap failed"
    /\ pre.others /\ ~othersActive /\ ~swapfileActive

\* C9 as claimed: /etc/fstab starts with the entry at most once (every state of
\* FstabStates does); after a successful set --persist it holds the entry
\* exactly once.
C9_FstabUnique ==
    (Ended("set", TRUE) /\ cur.persist) => Occurrences(fstab, fstab_line) = 1

(***************************************************************************)
(* C10: the value of a well-formed size token, computed without the parser *)
(***************************************************************************)
SuffixLetters == {"K", "k", "M", "m", "G", "g", "T", "t"}

AllDigits(s) == \A i \in 1..Len(s) : s[i] \in {"0", "1", "2", "3", "4", "5", "6", "7", "8", "9"}

\* a non-empty digit string, optionally followed by one suffix letter
ValidSizeForm(t) ==
    /\ t /= <<>>
    /\ \/ AllDigits(t)
       \/ Len(t) >= 2 /\ AllDigits(SubSeq(t, 1, Len(t) - 1)) /\ Last(t) \in SuffixLetters

RefDigits(t) == IF Last(t) \in SuffixLetters THEN SubSeq(t, 1, Len(t) - 1) ELSE t

RefExp(t) ==
    CASE Last(t) \in {"K", "k"} -> 1
      [] Last(t) \in {"M", "m"} -> 2
      [] Last(t) \in {"G", "g"} -> 3
      [] Last(t) \in {"T", "t"} -> 4
      [] OTHER -> 0

\* the number a digit string of at most 9 digits denotes
RECURSIVE RefDec(_)
RefDec(ds) ==
    IF ds = <<>> THEN 0
    ELSE RefDec(SubSeq(ds, 1, Len(ds) - 1)) * 10
         + (CHOOSE d \in 0..9 : DigitChars[d + 1] = Last(ds))

RECURSIVE ShiftDown(_, _)
ShiftDown(n, j) == IF j = 0 THEN n ELSE ShiftDown(n \div 1024, j - 1)

\* n * 1024^k in base 1024: k zero limbs, then the base-1024 digits of n
RefProduct(n, k) ==
    [fits |-> ShiftDown(n, 7 - k) = 0 /\ ShiftDown(n, 6 - k) < 16,
     val  |-> [i \in 1..7 |-> IF i <= k THEN 0 ELSE ShiftDown(n, i - k - 1) % 1024]]

\* the products of the tokens whose magnitude has more than 9 digits:
\* 2^32 * 1024^3 = 2^62, (2^54 - 1) * 1024 and 2^64 - 1
RefLong(t) ==
    CASE t = <<"4", "2", "9", "4", "9", "6", "7", "2", "9", "6", "G">> ->
            [fits |-> TRUE, val |-> <<0, 0, 0, 0, 0, 0, 4>>]
      [] t = <<"1", "8", "0", "1", "4", "3", "9", "8", "5", "0", "9", "4", "8", "1", "9",
               "8", "3", "K">> ->
            [fits |-> TRUE, val |-> <<0, 1023, 1023, 1023, 1023, 1023, 15>>]
      [] t = <<"1", "8", "4", "4", "6", "7", "4", "4", "0", "7", "3", "7", "0", "9", "5",
               "5", "1", "6", "1", "5">> ->
            [fits |-> TRUE, val |-> <<1023, 1023, 1023, 1023, 1023, 1023, 15>>]
      [] OTHER -> [fits |-> FALSE, val |-> <<>>]

Expected(t) ==
    IF Len(RefDigits(t)) <= 9 THEN RefProduct(RefDec(RefDigits(t)), RefExp(t))
    ELSE RefLong(t)

\* C10: for a token made of a non-empty digit string N and an optional suffix
\* K, M, G or T in either case, with N times the multiplier below 2^64, the
\* parse succeeds with exactly N x 1024^k (k = 0 without suffix).
C10_ParseValue ==
    (pc /= "set_swap" /\ cur.act = "set" /\ ValidSizeForm(cur.size_tok)
        /\ Expected(cur.size_tok).fits) =>
        /\ exit = "running"
        /\ size_bytes = Expected(cur.size_tok).val

\* "512M" parsed to 512 x 1024^2
C10_Witness ==
    /\ cur.size_tok = <<"5", "1", "2", "M">>
    /\ pc = "set_stale"
    /\ size_bytes = <<0, 0, 512, 0, 0, 0, 0>>

(***************************************************************************)
(* C11, C12: rejected tokens and overflow                                  *)
(***************************************************************************)
\* the token with one trailing suffix letter removed
Magnitude(t) ==
    IF t /= <<>> /\ Last(t) \in SuffixLetters THEN SubSeq(t, 1, Len(t) - 1) ELSE t

\* the call of parse_human_size on the size token has been made
Parsed == cur.act = "set" /\ pc /= "set_swap"

ParseErrors ==
    {"empty size", "unknown suffix", "malformed size", "parse: invalid digit",
     "parse: number too large", "parse: empty", "size overflow"}

\* C11 as claimed: a token whose magnitude part (the token with one trailing
\* K/M/G/T letter removed) is empty or not made only of decimal digits is
\* rejected with an error; "+5G" and "-5G" are among them.
C11_Rejects ==
    (Parsed /\ (Magnitude(cur.size_tok) = <<>> \/ ~AllDigits(Magnitude(cur.size_tok)))) =>
        /\ exit = "nonzero"
        /\ err \in ParseErrors

RECURSIVE StripZeros(_)
StripZeros(ds) ==
    IF ds /= <<>> /\ Head(ds) = "0" THEN StripZeros(Tail(ds)) ELSE ds

\* 2^64 - 1 in decimal
MaxU64Digits ==
    <<"1", "8", "4", "4", "6", "7", "4", "4", "0", "7", "3", "7", "0", "9", "5", "5",
      "1", "6", "1", "5">>

\* a <= b for digit strings of the same length
RECURSIVE DigitsLeq(_, _)
DigitsLeq(a, b) ==
    IF a = <<>> THEN TRUE
    ELSE LET x == CHOOSE d \in 0..9 : DigitChars[d + 1] = Head(a)
             y == CHOOSE d \in 0..9 : DigitChars[d + 1] = Head(b)
         IN  x < y \/ (x = y /\ DigitsLeq(Tail(a), Tail(b)))

\* the number a digit string denotes is at most 2^64 - 1
MagnitudeFits(ds) ==
    LET d == StripZeros(ds)
    IN  \/ Len(d) < Len(MaxU64Digits)
        \/ Len(d) = Len(MaxU64Digits) /\ DigitsLeq(d, MaxU64Digits)

\* C12 as claimed: whenever the magnitude times its multiplier exceeds the
\* 64-bit range the parse fails with the overflow error.
C12_AlwaysOverflowError ==
    (Parsed /\ ValidSizeForm(cur.size_tok) /\ ~Expected(cur.size_tok).fits) =>
        /\ exit = "nonzero"
        /\ err = "size overflow"

\* C12 (amended): for a digit string N with an optional suffix, when N is below
\* 2^64 and N times the multiplier is not, the parse fails with the overflow
\* error; when N itself is 2^64 or more it fails with the numeric parse-failure
\* error; a value that is returned always equals N x multiplier (no wraparound).
C12_Overflow ==
    (Parsed /\ ValidSizeForm(cur.size_tok)) =>
        /\ (MagnitudeFits(RefDigits(cur.size_tok)) /\ ~Expected(cur.size_tok).fits) =>
              (exit = "nonzero" /\ err = "size overflow")
        /\ ~MagnitudeFits(RefDigits(cur.size_tok)) =>
              (exit = "nonzero" /\ err = "parse: number too large")
        /\ exit = "running" =>
              /\ Expected(cur.size_tok).fits
              /\ size_bytes = Expected(cur.size_tok).val

\* "16777216T" (2^24 x 1024^4 = 2^64) rejected with the overflow error
C12_Witness ==
    /\ cur.size_tok = <<"1", "6", "7", "7", "7", "2", "1", "6", "T">>
    /\ pc = "done"
    /\ exit = "nonzero"
    /\ err = "size overflow"
    /\ size_bytes = Zero

(***************************************************************************)
(* C13 .. C19: the steps of the actions                                    *)
(***************************************************************************)
\* C13: with an empty action list the run prints the usage hint and exits
\* zero; no token is dispatched, no utility is invoked and no file is read or
\* written.
C13_EmptyActions ==
    args = <<>> =>
        /\ q = <<>> /\ cur = NoAction /\ hist = <<>> /\ calls = <<>> /\ err = ""
        /\ Untouched
        /\ pc = "start" => (exit = "running" /\ out = <<>>)
        /\ pc /= "start" => (pc = "done" /\ exit = "zero" /\ out = <<"usage_hint">>)

\* the run on an empty action list is over
C13_Witness ==
    /\ args = <<>>
    /\ pc = "done"
    /\ exit = "zero"
    /\ out = <<"usage_hint">>

\* a step of set_swap whose failure is fatal has failed
FatalResult(c) ==
    \/ c.u = "swapoff -a" /\ c.r = "nonzero"
    \/ c.u = "remove_file" /\ c.r = "err"
    \/ c.u \in {"dd", "mkswap", "swapon path"} /\ c.r = "nonzero"

FatalError(u) ==
    CASE u = "swapoff -a"  -> "swapoff -a failed"
      [] u = "remove_file" -> "removing existing swapfile"
      [] u = "dd"          -> "dd failed to create swapfile"
      [] u = "mkswap"      -> "mkswap failed"
      [] u = "swapon path" -> "swapon failed"

\* C14: a non-zero exit of swapoff -a, a failed deletion of the existing
\* swapfile, a non-zero exit of dd, of mkswap or of swapon makes the Set action
\* fail at that step: it is the last step of the action, which ended with that
\* step's error.
C14_FatalSteps ==
    cur.act = "set" =>
        \A i \in 1..Len(calls) :
            FatalResult(calls[i]) =>
                /\ i = Len(calls)
                /\ Ended("set", FALSE)
                /\ exit = "nonzero"
                /\ err = FatalError(calls[i].u)

\* a set --replace --persist that could not delete the existing swapfile
C14_Witness ==
    /\ Ended("set", FALSE)
    /\ cur.replace /\ cur.persist
    /\ Last(calls) = Call("remove_file", "err", <<>>)
    /\ err = "removing existing swapfile"
    /\ fileExists
    /\ fstab = pre.fstab

\* C15: a failure of swapoff <path> before the deletion, or of chmod after the
\* allocation, does not end the action and does not skip the next step: the
\* deletion follows a failed swapoff <path>, mkswap follows a failed chmod.
C15_BestEffort ==
    cur.act = "set" =>
        \A i \in 1..Len(calls) :
            (calls[i].u \in {"swapoff path", "chmod"} /\ calls[i].r /= "ok") =>
                IF i = Len(calls)
                THEN /\ exit = "running"
                     /\ pc = (IF calls[i].u = "chmod" THEN "set_mkswap"
                              ELSE "set_remove_file")
                ELSE calls[i + 1].u = (IF calls[i].u = "chmod" THEN "mkswap"
                                       ELSE "remove_file")

\* a set that succeeded although swapoff <path> could not be started and chmod
\* exited non-zero
C15_Witness ==
    /\ Ended("set", TRUE)
    /\ \E i \in Calls("swapoff path") : calls[i].r = "nospawn"
    /\ \E i \in Calls("chmod") : calls[i].r = "nonzero"
    /\ CalledOk("remove_file")
    /\ CalledOk("mkswap")

\* C16 as claimed: dd is invoked iff fallocate could not be started or reported
\* failure; after a fallocate that exited zero dd is never invoked, and a
\* fallocate that failed or could not be started does not end the action.
C16_Fallback ==
    cur.act = "set" =>
        /\ Called("dd") => (Called("fallocate") /\ ~CalledOk("fallocate"))
        /\ (calls /= <<>> /\ Last(calls).u = "fallocate" /\ Last(calls).r /= "ok") =>
              (exit = "running" /\ pc \in {"set_fallocate", "set_dd"})
        /\ (Called("chmod") /\ ~CalledOk("fallocate")) => CalledOk("dd")

\* x + 1 on limbs from limb i on, for x below 2^64 - 1
RECURSIVE RefIncr(_, _)
RefIncr(x, i) ==
    IF x[i] < 1023 THEN [x EXCEPT ![i] = x[i] + 1]
    ELSE RefIncr([x EXCEPT ![i] = 0], i + 1)

\* ceil(x / 2^20): the limbs above the two low ones, plus one when the two low
\* limbs are not both zero
RefCeilMiB(x) ==
    LET quot == [i \in 1..7 |-> IF i <= 5 THEN x[i + 2] ELSE 0]
    IN  IF x[1] = 0 /\ x[2] = 0 THEN quot ELSE RefIncr(quot, 1)

\* C17 as claimed: for every byte count the parser can return, the count
\* handed to dd is ceil(bytes / 1 MiB), and computing it neither overflows nor
\* wraps around.
C17_DdCount ==
    cur.act = "set" =>
        /\ err /= "panic: attempt to add with overflow"
        /\ \A i \in Calls("dd") : calls[i].arg = RefCeilMiB(size_bytes)

\* C18: /etc/fstab is read or written only in a Set action with --persist and
\* only after swapon of the new swapfile exited zero; when the append fails
\* the action fails there and the swapfile stays in place, formatted and active.
C18_PersistGate ==
    /\ (Called("read /etc/fstab") \/ Called("append /etc/fstab") \/ fstab /= pre.fstab) =>
          /\ cur.act = "set"
          /\ cur.persist
          /\ \E i \in Calls("swapon path") :
                /\ calls[i].r = "ok"
                /\ \A j \in Calls("read /etc/fstab") \cup Calls("append /etc/fstab") : i < j
    /\ \A i \in Calls("append /etc/fstab") :
          calls[i].r /= "ok" =>
              /\ i = Len(calls)
              /\ Ended("set", FALSE)
              /\ exit = "nonzero"
              /\ err = (IF calls[i].r = "open_err" THEN "open /etc/fstab for appending"
                        ELSE "writing to /etc/fstab")
              /\ fileExists /\ swapfileActive /\ CalledOk("mkswap")

\* the write to /etc/fstab failed half way, with a token still queued
C18_Witness ==
    /\ Ended("set", FALSE)
    /\ err = "writing to /etc/fstab"
    /\ q /= <<>>
    /\ fstab /= pre.fstab
    /\ fileExists /\ swapfileActive

\* C19: in an Empty action swapon -a is invoked only right after swapoff -a
\* exited zero; a failing swapoff -a or swapon -a ends the action as failed with
\* nothing invoked after it; the action succeeds only when both exited zero.
C19_EmptyMachine ==
    cur.act = "empty" =>
        /\ \A j \in Calls("swapon -a") :
              /\ j > 1
              /\ calls[j - 1] = Call("swapoff -a", "ok", <<>>)
        /\ \A i \in Calls("swapoff -a") \cup Calls("swapon -a") :
              calls[i].r /= "ok" => (i = Len(calls) /\ Ended("empty", FALSE))
        /\ Ended("empty", TRUE) => (CalledOk("swapoff -a") /\ CalledOk("swapon -a"))
        /\ Cardinality(Calls("swapoff -a")) <= 1
        /\ Cardinality(Calls("swapon -a")) <= 1

\* swapon -a exited non-zero: the run is over with every swap area disabled
C19_Witness ==
    /\ Ended("empty", FALSE)
    /\ err = "swapon failed"
    /\ pc = "done"
    /\ pre.others
    /\ ~othersActive /\ ~swapfileActive

(***************************************************************************)
(* C20: the totals of show, computed from the rows of the table in         *)
(* unbounded arithmetic (9 limbs of base 1024)                             *)
(***************************************************************************)
\* a * m + c on 9 limbs, from limb i on
RECURSIVE RefMulAdd(_, _, _, _)
RefMulAdd(a, m, c, i) ==
    IF i > 9 THEN <<>>
    ELSE <<(a[i] * m + c) % 1024>> \o RefMulAdd(a, m, (a[i] * m + c) \div 1024, i + 1)

\* the number a digit string denotes, on 9 limbs: acc * 10^Len(ds) + ds
RECURSIVE RefNumber(_, _)
RefNumber(ds, acc) ==
    IF ds = <<>> THEN acc
    ELSE LET next == RefMulAdd(acc, 10, CHOOSE d \in 0..9 : DigitChars[d + 1] = Head(ds), 1)
         IN  IF Len(next) = 9 THEN RefNumber(Tail(ds), next) ELSE <<>>

\* the value of a field in KiB: a decimal number below 2^64, with or without a
\* leading "+" as str::parse takes it; anything else counts as 0
RefField(f) ==
    LET ds == IF f /= <<>> /\ Head(f) = "+" THEN Tail(f) ELSE f
    IN  IF ds /= <<>> /\ AllDigits(ds) /\ MagnitudeFits(ds)
        THEN RefNumber(ds, [i \in 1..9 |-> 0])
        ELSE [i \in 1..9 |-> 0]

\* a + b on 9 limbs, from limb i on
RECURSIVE RefAdd(_, _, _, _)
RefAdd(a, b, c, i) ==
    IF i > 9 THEN <<>>
    ELSE <<(a[i] + b[i] + c) % 1024>> \o RefAdd(a, b, (a[i] + b[i] + c) \div 1024, i + 1)

\* the sum of column col x 1024 over the rows with at least 5 fields
RECURSIVE RefTotal(_, _)
RefTotal(rows, col) ==
    IF rows = <<>> THEN [i \in 1..9 |-> 0]
    ELSE IF Len(rows[1].fields) >= 5
         THEN RefAdd(RefMulAdd(RefField(rows[1].fields[col]), 1024, 0, 1),
                     RefTotal(Tail(rows), col), 0, 1)
         ELSE RefTotal(Tail(rows), col)

RECURSIVE RefEchoed(_)
RefEchoed(rows) ==
    IF rows = <<>> THEN <<>>
    ELSE (IF Len(rows[1].fields) >= 5
          THEN <<Join(rows[1].fields, rows[1].sep)>> ELSE <<>>)
         \o RefEchoed(Tail(rows))

RefTableOf(text) == CHOOSE t \in RowTables : Render(t.rows, t.nl) = text

Wide(x) == [i \in 1..9 |-> IF i <= 7 THEN x[i] ELSE 0]

\* C20 as claimed: whatever the table holds, show succeeds once the table was
\* read; it echoes exactly the data lines with at least 5 fields, and the two
\* totals are the sums over those lines of column 3 x 1024 and column 4 x 1024
\* (a field that is no number counting as 0), without wraparound.
C20_ShowTotals ==
    cur.act = "show" =>
        \A i \in Calls("read /proc/swaps") :
            calls[i].r = "ok" =>
                /\ ~Ended("show", FALSE)
                /\ i < Len(calls)
                /\ LET t == RefTableOf(calls[i].arg)
                       report == calls[i + 1].arg
                   IN  /\ report.header = Join(t.rows[1].fields, t.rows[1].sep)
                       /\ report.echoed = RefEchoed(Tail(t.rows))
                       /\ Wide(report.total_size) = RefTotal(Tail(t.rows), 3)
                       /\ Wide(report.total_used) = RefTotal(Tail(t.rows), 4)

====
